---- MODULE Spec2Model ----
(***************************************************************************)
(* Chaptered conversion pipeline of the audio-book backend.                *)
(*                                                                         *)
(* Part 1: TTSService (backend/app/services/tts.py).  One book whose       *)
(* manifest was written by BookSplitter.split_book (every chapter pending, *)
(* total_chapters = len(chapters)); up to MaxCalls invocations of          *)
(* convert_book share one TTSService, hence one jobs dict and one          *)
(* ThreadPoolExecutor.  convert_book runs on the event loop: everything    *)
(* between two suspension points (the awaits on executor futures) is one   *)
(* atomic action.  _convert_chapter runs on the executor's threads.        *)
(*                                                                         *)
(* _process_chapters (tts.py:168) and _create_archive (tts.py:312) read    *)
(* the free name manifest_path, which is neither a parameter nor a local   *)
(* of those methods and is looked up in the module namespace when the line *)
(* runs.  manifestPathBound records whether that namespace binds the name. *)
(* tts.py itself never binds it: there the read raises NameError, which    *)
(* convert_book catches at tts.py:147.                                     *)
(***************************************************************************)
EXTENDS Integers, Sequences, FiniteSets, TLC

\* ---------------------------------------------------------------- bounds
NumChapters == 2
MaxCalls == 2
MaxClock == 1
MaxConversions == 2
MaxChunks == 2
MaxFiles == 2
MaxUnits == 2

\* ------------------------------------------------------ program constants
max_workers == 2

Chapters == 1..NumChapters
Conversions == 1..MaxConversions
Calls == 1..MaxCalls
JobIds == 0..MaxClock

None == <<>>
NoCall == 0

\* ConversionStatus, tts.py:20-26
PENDING == "pending"
PROCESSING == "processing"
COMPLETED == "completed"
FAILED == "failed"
CANCELLED == "cancelled"

VARIABLES
    manifestPathBound,  \* does the module namespace of tts.py bind manifest_path
    output_format,      \* TTSService.output_format
    now,                \* the clock second datetime.now() last read (tts.py:124)
    manifestFile,       \* manifest.json on disk: the chapter records
    files,              \* audio files that exist (and are non-empty) on disk
    archive,            \* the audiobook ZIP of the book: whether it was written,
                        \*   its audio members, its manifest.json, its README lines
    pc,                 \* per convert_book call: "idle", "awaiting", "returned"
    job,                \* per call: its ConversionJob object
    manifest,           \* per call: the manifest dict loaded at tts.py:120
    futures,            \* per call: the chapters it dispatched, in order
    idx,                \* per call: position in futures of the awaited future
    jobs,               \* TTSService.jobs: job_id -> call holding the job object
    queue,              \* executor work queue: <<call, chapter>> not yet started
    running,            \* tasks a worker thread is executing
    result,             \* per task: state of its future
    loaded,             \* history: per call, the chapter statuses it loaded at tts.py:120
    outcome,            \* history: per task, how its _convert_chapter call ended:
                        \*   "none", "file" (returned, output file on disk),
                        \*   "nofile" (returned, no output file), "raised"
    callback_kind,      \* the progress_callback the caller passes: a plain
                        \*   "function" or a "coroutine" function (async def)
    reported            \* per task: the 'status' of the last update the body of
                        \*   the progress callback received about the chapter

VARIABLES
    conversions,        \* ConversionService.conversions: job_id -> tracking dict
    task,               \* per job_id: where its _run_conversion task stands
    chunks,             \* per job_id: len(chunks), the local of conversion_service.py:106
    audio_files,        \* per job_id: the local list of conversion_service.py:125
    tempFiles,          \* chunk WAV files on disk: <<job_id, i>>
    outputFiles         \* combined output files on disk, by job_id

csVars == <<conversions, task, chunks, audio_files, tempFiles, outputFiles>>

ttsVars == <<manifestPathBound, output_format, now, manifestFile, files, archive,
             pc, job, manifest, futures, idx, jobs, queue, running, result,
             loaded, outcome, callback_kind, reported>>

Tasks == Calls \X Chapters

\* paths of _convert_chapter, tts.py:244-251
wav_path(ch) == <<ch, "wav">>
mp3_path(ch) == <<ch, "mp3">>
output_path(ch) == IF output_format = "mp3" THEN mp3_path(ch) ELSE wav_path(ch)

NoResult == [state |-> "pending", value |-> None, error |-> "None"]

\* the manifest BookSplitter.split_book writes, splitter.py:112-138
SplitManifest ==
    [ch \in Chapters |-> [status |-> PENDING, audio_file |-> None, error |-> "None"]]

\* no ZIP on disk
NoArchive == [written |-> FALSE, audio |-> {}, manifest |-> SplitManifest, readme |-> {}]

\* ConversionJob(...), tts.py:125-131 with the defaults of tts.py:35-41
NewJob(id) ==
    [job_id |-> id,
     total_chapters |-> NumChapters,
     chapters_completed |-> 0,
     status |-> PENDING,
     error |-> "None",
     current_chapter |-> 0,
     output_zip |-> FALSE]

TtsInit ==
    /\ manifestPathBound \in BOOLEAN
    /\ output_format \in {"mp3", "wav"}
    /\ now = 0
    /\ manifestFile = SplitManifest
    /\ files = {}
    /\ archive = NoArchive
    /\ pc = [c \in Calls |-> "idle"]
    /\ job = [c \in Calls |-> NewJob(0)]
    /\ manifest = [c \in Calls |-> SplitManifest]
    /\ futures = [c \in Calls |-> <<>>]
    /\ idx = [c \in Calls |-> 1]
    /\ jobs = [id \in JobIds |-> NoCall]
    /\ queue = <<>>
    /\ running = {}
    /\ result = [t \in Tasks |-> NoResult]
    /\ loaded = [c \in Calls |-> [ch \in Chapters |-> PENDING]]
    /\ outcome = [t \in Tasks |-> "none"]
    /\ callback_kind \in {"function", "coroutine"}
    /\ reported = [t \in Tasks |-> "none"]

\* an executor that starts a thread for every submitted task, whatever
\* max_workers says
RECURSIVE ScheduleUnbounded(_, _)
ScheduleUnbounded(q, r) ==
    IF q # <<>>
    THEN ScheduleUnbounded(Tail(q), r \cup {Head(q)})
    ELSE [queue |-> q, running |-> r]

\* ThreadPoolExecutor(max_workers), tts.py:80: submitted tasks wait in a FIFO
\* queue and a worker thread that is free takes the oldest one at once.
\* Schedule(q, r) is the executor after every free worker has taken a task.
RECURSIVE Schedule(_, _)
Schedule(q, r) ==
    IF q # <<>> /\ Cardinality(r) < max_workers
    THEN Schedule(Tail(q), r \cup {Head(q)})
    ELSE [queue |-> q, running |-> r]

\* ------------------------------------------------------------ convert_book

\* the test of tts.py:177 that skips a chapter in the dispatch loop
AlreadyProcessed(chapter) == chapter.status = "completed"

\* the dispatch loop without the continue of tts.py:179: a chapter that is
\* already completed is counted and submitted again all the same
RECURSIVE DispatchNoContinue(_, _, _, _)
DispatchNoContinue(m, j, futs, ch) ==
    IF ch > NumChapters THEN [job |-> j, futures |-> futs]
    ELSE IF AlreadyProcessed(m[ch])
         THEN DispatchNoContinue(m, [j EXCEPT !.chapters_completed = @ + 1],
                                 Append(futs, ch), ch + 1)
         ELSE DispatchNoContinue(m, j, Append(futs, ch), ch + 1)

\* the dispatch loop submitting every chapter it does not skip a second
\* time, as a retry in reserve
RECURSIVE DispatchWithRetry(_, _, _, _)
DispatchWithRetry(m, j, futs, ch) ==
    IF ch > NumChapters THEN [job |-> j, futures |-> futs]
    ELSE IF AlreadyProcessed(m[ch])
         THEN DispatchWithRetry(m, [j EXCEPT !.chapters_completed = @ + 1], futs, ch + 1)
         ELSE DispatchWithRetry(m, j, Append(Append(futs, ch), ch), ch + 1)

\* first loop of _process_chapters, tts.py:175-187, from chapter ch on:
\* completed chapters are counted, every other chapter is submitted
RECURSIVE Dispatch(_, _, _, _)
Dispatch(m, j, futs, ch) ==
    IF ch > NumChapters THEN [job |-> j, futures |-> futs]
    ELSE IF AlreadyProcessed(m[ch])
         THEN Dispatch(m, [j EXCEPT !.chapters_completed = @ + 1], futs, ch + 1)
         ELSE Dispatch(m, j, Append(futs, ch), ch + 1)

\* tts.py:206-208
ChapterCompleted(chapter, audio_path) ==
    [chapter EXCEPT !.audio_file = audio_path, !.status = "completed"]

\* the except branch without the assignment of tts.py:223: the error is
\* recorded and the chapter keeps the status it had
ChapterFailedKeepsStatus(chapter, e) ==
    [chapter EXCEPT !.error = e]

\* tts.py:223-224
ChapterFailed(chapter, e) ==
    [chapter EXCEPT !.status = "failed", !.error = e]

\* tts.py:210
CountCompleted(j) == [j EXCEPT !.chapters_completed = @ + 1]

\* second loop of _process_chapters, tts.py:190-227, from position i of futs:
\* runs until it reaches a future that is not done (the await of tts.py:203
\* suspends) or the end of the list
RECURSIVE AwaitFutures(_, _, _, _, _, _)
AwaitFutures(res, c, j, m, futs, i) ==
    IF i > Len(futs)
    THEN [job |-> j, manifest |-> m, idx |-> i, suspended |-> FALSE]
    ELSE LET ch == futs[i]
             j1 == [j EXCEPT !.current_chapter = ch]
             r  == res[<<c, ch>>]
         IN  IF r.state = "pending"
             THEN [job |-> j1, manifest |-> m, idx |-> i, suspended |-> TRUE]
             ELSE IF r.state = "done"
             THEN AwaitFutures(res, c, CountCompleted(j1),
                                    [m EXCEPT ![ch] = ChapterCompleted(@, r.value)],
                                    futs, i + 1)
             ELSE AwaitFutures(res, c, j1,
                                    [m EXCEPT ![ch] = ChapterFailed(@, r.error)],
                                    futs, i + 1)

\* _generate_readme, tts.py:339-374: the chapter list of the README has one
\* line for every chapter whose status is completed, and no other line
generate_readme(m) ==
    {<<ch, "listed">> : ch \in {x \in Chapters : m[x].status = "completed"}}

\* _create_archive, tts.py:308-337, for manifest m with the files fs on disk:
\* the audio of every completed chapter whose file exists, the manifest as
\* it is in memory, and the README
create_archive(m, fs) ==
    [written |-> TRUE,
     audio |-> {ch \in Chapters : /\ m[ch].status = "completed"
                                  /\ m[ch].audio_file # None
                                  /\ m[ch].audio_file \in fs},
     manifest |-> m,
     readme |-> generate_readme(m)]

\* tts.py:141
ArchiveWanted(j) == j.chapters_completed > 0

\* convert_book clearing the chapter counter when it marks the job completed
FinishResetsCounter(j) ==
    [j EXCEPT !.output_zip = ArchiveWanted(j), !.status = COMPLETED,
              !.chapters_completed = 0]

\* convert_book returning without the assignment of tts.py:144
FinishKeepsStatus(j) ==
    [j EXCEPT !.output_zip = ArchiveWanted(j)]

\* tts.py:140-145 once _process_chapters has returned
Finish(j) ==
    [j EXCEPT !.output_zip = ArchiveWanted(j), !.status = COMPLETED]

\* tts.py:147-150 for the NameError of tts.py:168
ProcessingFailed(j) ==
    [j EXCEPT !.status = FAILED, !.error = "NameError"]

\* the 'status' of the last update that the segment of the await loop from
\* position i to a.idx sends about chapter t[2] of call t[1], "none" if it
\* sends none: 'processing' before the await (tts.py:195-200) and
\* 'chapter_completed' after a successful one (tts.py:213-218); the except
\* branch (tts.py:221-227) sends nothing
ProgressUpdates(res, c, futs, i, a, t) ==
    IF t[1] = c /\ (\E k \in i..(a.idx - 1) : futs[k] = t[2])
    THEN IF res[t].state = "done" THEN "chapter_completed" ELSE "processing"
    ELSE IF t[1] = c /\ a.suspended /\ futs[a.idx] = t[2]
    THEN "processing"
    ELSE "none"

\* progress_callback(job.job_id, {...}) is a plain call, tts.py:195 and 213:
\* it runs the body of a function; for a coroutine function it only builds
\* a coroutine object, which nothing awaits, and the body never runs
Delivered(old, kind, update) ==
    IF update = "none" \/ kind = "coroutine" THEN old ELSE update

\* the event-loop segment of convert_book that runs from position i of the
\* await loop to the next suspension or to the return of tts.py:156; res are
\* the futures' states when the segment runs.  A future the loop has passed
\* is referenced no more.
Advance(res, c, j, m, futs, i) ==
    LET a == AwaitFutures(res, c, j, m, futs, i) IN
    /\ reported' = [t \in Tasks |-> Delivered(reported[t], callback_kind,
                                               ProgressUpdates(res, c, futs, i, a, t))]
    /\ result' = [t \in Tasks |->
                     IF t[1] = c /\ (\E k \in i..(a.idx - 1) : futs[k] = t[2])
                     THEN NoResult ELSE res[t]]
    /\ manifest' = [manifest EXCEPT ![c] = a.manifest]
    /\ idx' = [idx EXCEPT ![c] = a.idx]
    /\ IF a.suspended
       THEN /\ pc' = [pc EXCEPT ![c] = "awaiting"]
            /\ job' = [job EXCEPT ![c] = a.job]
            /\ UNCHANGED <<manifestFile, archive>>
       ELSE LET f == Finish(a.job) IN
            /\ pc' = [pc EXCEPT ![c] = "returned"]
            /\ job' = [job EXCEPT ![c] = f]
            /\ manifestFile' = a.manifest
            /\ archive' = IF f.output_zip THEN create_archive(a.manifest, files')
                           ELSE archive

\* convert_book, tts.py:102-156, up to its first suspension
ConvertBook(c) ==
    /\ pc[c] = "idle"
    /\ now' \in now..MaxClock
    /\ UNCHANGED <<manifestPathBound, output_format, files, outcome, callback_kind>>
    /\ LET j0 == [NewJob(now') EXCEPT !.status = PROCESSING]
           m0 == manifestFile
       IN  /\ jobs' = [jobs EXCEPT ![now'] = c]
           /\ loaded' = [loaded EXCEPT ![c] = [ch \in Chapters |-> m0[ch].status]]
           /\ IF ~manifestPathBound
              THEN /\ pc' = [pc EXCEPT ![c] = "returned"]
                   /\ job' = [job EXCEPT ![c] = ProcessingFailed(j0)]
                   /\ manifest' = [manifest EXCEPT ![c] = m0]
                   /\ manifestFile' = m0
                   /\ UNCHANGED <<futures, idx, queue, running, archive, result, reported>>
              ELSE LET d == Dispatch(m0, j0, <<>>, 1) IN
                   /\ futures' = [futures EXCEPT ![c] = d.futures]
                   /\ LET e == Schedule(queue \o [k \in 1..Len(d.futures) |-> <<c, d.futures[k]>>],
                                         running)
                      IN  queue' = e.queue /\ running' = e.running
                   /\ Advance(result, c, d.job, m0, d.futures, 1)

\* ------------------------------------------------------------ the executor

PiperOutcomes == {"ok", "nofile", "fail", "timeout"}
FfmpegOutcomes == {"ok", "fail"}

\* _convert_chapter, tts.py:229-284, for the outcomes of the two subprocesses:
\* piper "ok" exits 0 having written the WAV, "nofile" exits 0 without it,
\* "fail" exits non-zero, "timeout" exceeds the 300 s of tts.py:273
ConvertChapter(ch, piper, ffmpeg) ==
    LET f1 == IF piper = "ok" THEN files \cup {wav_path(ch)} ELSE files IN
    IF piper = "timeout"
    THEN [files |-> f1, result |-> [state |-> "raised", value |-> None, error |-> "TimeoutExpired"]]
    ELSE IF piper = "fail"
    THEN [files |-> f1, result |-> [state |-> "raised", value |-> None, error |-> "RuntimeError"]]
    ELSE IF output_format = "mp3" /\ wav_path(ch) \in f1
    THEN IF ffmpeg = "ok"
         THEN [files |-> (f1 \cup {mp3_path(ch)}) \ {wav_path(ch)},
               result |-> [state |-> "done", value |-> output_path(ch), error |-> "None"]]
         ELSE [files |-> f1,
               result |-> [state |-> "raised", value |-> None, error |-> "RuntimeError"]]
    ELSE [files |-> f1,
          result |-> [state |-> "done", value |-> output_path(ch), error |-> "None"]]

\* a worker thread runs _convert_chapter to its end and settles the future;
\* the worker takes the next queued task, and when convert_book is suspended
\* on this very future (tts.py:203) the event loop resumes it
WorkerFinish(t) ==
    /\ t \in running
    /\ LET e == Schedule(queue, running \ {t})
       IN  queue' = e.queue /\ running' = e.running
    /\ \E piper \in PiperOutcomes, ffmpeg \in FfmpegOutcomes :
           LET r == ConvertChapter(t[2], piper, ffmpeg)
               res == [result EXCEPT ![t] = r.result]
               c == t[1]
           IN  /\ files' = r.files
               /\ outcome' = [outcome EXCEPT ![t] =
                                 IF r.result.state = "raised" THEN "raised"
                                 ELSE IF r.result.value \in r.files THEN "file"
                                 ELSE "nofile"]
               /\ IF pc[c] = "awaiting" /\ futures[c][idx[c]] = t[2]
                  THEN Advance(res, c, job[c], manifest[c], futures[c], idx[c])
                  ELSE /\ result' = res
                       /\ UNCHANGED <<pc, job, manifest, idx, manifestFile, archive, reported>>
    /\ UNCHANGED <<manifestPathBound, output_format, now, futures, jobs, loaded,
                   callback_kind>>

\* ------------------------------------------------------- other operations

\* cancel_job without the status test of tts.py:397: every known job is
\* cancelled
cancel_job_any_status(id) ==
    IF jobs[id] # NoCall
    THEN [returned |-> TRUE, job |-> [job EXCEPT ![jobs[id]].status = CANCELLED]]
    ELSE [returned |-> FALSE, job |-> job]

\* cancel_job, tts.py:392-401: its return value and the jobs after it
cancel_job(id) ==
    IF jobs[id] # NoCall /\ job[jobs[id]].status = PROCESSING
    THEN [returned |-> TRUE, job |-> [job EXCEPT ![jobs[id]].status = CANCELLED]]
    ELSE [returned |-> FALSE, job |-> job]

\* a call of cancel_job that returns True (one that returns False changes
\* nothing)
CancelJob(id) ==
    /\ cancel_job(id).returned
    /\ job' = cancel_job(id).job
    /\ UNCHANGED <<manifestPathBound, output_format, now, manifestFile, files, archive,
                   pc, manifest, futures, idx, jobs, queue, running, result,
                   loaded, outcome, callback_kind, reported>>


(***************************************************************************)
(* Part 2: ConversionService (backend/app/services/conversion_service.py). *)
(* start_conversion registers a tracking dict and schedules the task       *)
(* _run_conversion on the event loop; the task is suspended while it       *)
(* awaits the extractor, the synthesis engine, the audio combiner and the  *)
(* duration estimate, and the endpoints of api/routes/convert.py (cancel,  *)
(* delete) run between its segments.  Each awaited collaborator either     *)
(* returns or raises.                                                      *)
(***************************************************************************)

\* the tracking dict of conversion_service.py:50-69
NewConversion ==
    [status |-> "initializing",
     progress |-> 0,
     error |-> "None",
     steps |-> [extraction |-> "pending", processing |-> "pending",
                synthesis |-> "pending", finalization |-> "pending"],
     output_file |-> FALSE,
     duration_estimate |-> FALSE,
     chapters |-> <<>>]

CsInit ==
    /\ conversions = <<>>
    /\ task = [id \in Conversions |-> [at |-> "none", i |-> 0]]
    /\ chunks = [id \in Conversions |-> 0]
    /\ audio_files = [id \in Conversions |-> <<>>]
    /\ tempFiles = {}
    /\ outputFiles = {}

Known(id) == id \in DOMAIN conversions

\* the dict d with key id bound to value v
Put(d, id, v) == [k \in DOMAIN d \cup {id} |-> IF k = id THEN v ELSE d[k]]

\* _update_status, conversion_service.py:200-204, applied to one tracking dict
UpdateStatus(conv, status, progress) ==
    [conv EXCEPT !.status = status, !.progress = progress]

\* conversion_service.py:196-198
FailSteps(steps) ==
    [k \in DOMAIN steps |-> IF steps[k] = "in_progress" THEN "failed" ELSE steps[k]]

\* the handler of conversion_service.py:190-198
ConversionFailed(conv, e) ==
    [conv EXCEPT !.status = "failed", !.error = e, !.steps = FailSteps(@)]

\* conversion_service.py:145
SynthesisProgress(i, total_chunks) == 50 + ((i * 40) \div total_chunks)

\* start_conversion, conversion_service.py:29-74; uuid4 gives a fresh job_id
StartConversion(id) ==
    /\ task[id].at = "none"
    /\ ~Known(id)
    /\ conversions' = Put(conversions, id, NewConversion)
    /\ task' = [task EXCEPT ![id] = [at |-> "scheduled", i |-> 0]]
    /\ UNCHANGED <<chunks, audio_files, tempFiles, outputFiles>>

\* a segment of _run_conversion that finds its tracking dict deleted: the
\* subscript conversions[job_id] raises KeyError, and so does the handler at
\* conversion_service.py:192; the task ends with that exception
TaskCrashes(id) ==
    /\ task' = [task EXCEPT ![id] = [at |-> "crashed", i |-> @.i]]
    /\ UNCHANGED <<conversions, chunks, audio_files, outputFiles>>

\* the handler runs and the task ends
TaskFails(id, conv, e) ==
    /\ conversions' = [conversions EXCEPT ![id] = ConversionFailed(conv, e)]
    /\ task' = [task EXCEPT ![id] = [at |-> "ended", i |-> @.i]]
    /\ UNCHANGED <<chunks, audio_files, outputFiles>>

\* conversion_service.py:85-93: the task runs up to the await of the extractor
RunExtraction(id) ==
    /\ task[id].at = "scheduled"
    /\ IF ~Known(id)
       THEN TaskCrashes(id)
       ELSE /\ conversions' = [conversions EXCEPT ![id] =
                   [UpdateStatus(@, "extracting", 10)
                       EXCEPT !.steps.extraction = "in_progress"]]
            /\ task' = [task EXCEPT ![id] = [at |-> "extract", i |-> 0]]
            /\ UNCHANGED <<chunks, audio_files, outputFiles>>
    /\ UNCHANGED tempFiles

\* conversion_service.py:151-165: after the last chunk, up to the await of the combiner
BeginFinalization(conv) ==
    [UpdateStatus([conv EXCEPT !.steps.synthesis = "completed"], "finalizing", 90)
        EXCEPT !.steps.finalization = "in_progress"]

\* conversion_service.py:130: chunk i (1-based here) goes to the synthesizer
BeginChunk(conv, i) == [conv EXCEPT !.chapters[i].status = "processing"]

\* conversion_service.py:95-133: the extractor has answered; on text the task
\* runs up to the await of the first synthesis (or of the combiner when there
\* is no chunk)
AfterExtraction(id) ==
    /\ task[id].at = "extract"
    /\ \E answer \in {"text", "blank", "raises"}, n \in 0..MaxChunks :
        IF ~Known(id)
        THEN TaskCrashes(id)
        ELSE IF answer = "raises"
        THEN TaskFails(id, conversions[id], "ExtractionError")
        ELSE IF answer = "blank"
        THEN TaskFails(id, conversions[id], "ValueError")
        ELSE LET c1 == [conversions[id] EXCEPT !.steps.extraction = "completed"]
                 c2 == [UpdateStatus(c1, "processing", 30)
                           EXCEPT !.steps.processing = "in_progress"]
                 c3 == [c2 EXCEPT !.chapters =
                           [k \in 1..n |-> [status |-> "pending", audio_file |-> None]],
                                  !.steps.processing = "completed"]
                 c4 == [UpdateStatus(c3, "synthesizing", 50)
                           EXCEPT !.steps.synthesis = "in_progress"]
             IN  /\ chunks' = [chunks EXCEPT ![id] = n]
                 /\ audio_files' = [audio_files EXCEPT ![id] = <<>>]
                 /\ UNCHANGED outputFiles
                 /\ IF n = 0
                    THEN /\ conversions' = [conversions EXCEPT ![id] = BeginFinalization(c4)]
                         /\ task' = [task EXCEPT ![id] = [at |-> "combine", i |-> 0]]
                    ELSE /\ conversions' = [conversions EXCEPT ![id] = BeginChunk(c4, 1)]
                         /\ task' = [task EXCEPT ![id] = [at |-> "synth", i |-> 1]]
    /\ UNCHANGED tempFiles

\* conversion_service.py:148-149
ChunkCompleted(conv, i, chunk_file) ==
    [conv EXCEPT !.chapters[i].status = "completed",
                 !.chapters[i].audio_file = chunk_file]

\* conversion_service.py:133-149 and the next turn of the loop: the synthesis
\* of chunk i has answered
AfterSynthesis(id) ==
    /\ task[id].at = "synth"
    /\ \E answer \in {"audio", "raises"} :
        LET i == task[id].i
            chunk_file == <<id, i>>
        IN  IF answer = "raises"
            THEN /\ UNCHANGED tempFiles
                 /\ IF Known(id)
                    THEN TaskFails(id, conversions[id], "SynthesisError")
                    ELSE TaskCrashes(id)
            ELSE /\ tempFiles' = tempFiles \cup {chunk_file}
                 /\ IF ~Known(id)
                    THEN /\ task' = [task EXCEPT ![id] = [at |-> "crashed", i |-> @.i]]
                         /\ audio_files' = [audio_files EXCEPT ![id] = Append(@, chunk_file)]
                         /\ UNCHANGED <<conversions, chunks, outputFiles>>
                    ELSE LET c1 == UpdateStatus(conversions[id], "synthesizing",
                                                SynthesisProgress(i, chunks[id]))
                             c2 == ChunkCompleted(c1, i, chunk_file)
                         IN  /\ audio_files' = [audio_files EXCEPT ![id] = Append(@, chunk_file)]
                             /\ UNCHANGED <<chunks, outputFiles>>
                             /\ IF i < chunks[id]
                                THEN /\ conversions' = [conversions EXCEPT ![id] = BeginChunk(c2, i + 1)]
                                     /\ task' = [task EXCEPT ![id] = [at |-> "synth", i |-> i + 1]]
                                ELSE /\ conversions' = [conversions EXCEPT ![id] = BeginFinalization(c2)]
                                     /\ task' = [task EXCEPT ![id] = [at |-> "combine", i |-> i]]

\* conversion_service.py:171-178
ConversionCompleted(conv) ==
    [conv EXCEPT !.steps.finalization = "completed",
                 !.status = "completed",
                 !.progress = 100,
                 !.output_file = TRUE]

\* conversion_service.py:160-185: the combiner has answered; on success the
\* chunk files are removed and the task runs up to the await of the estimate
AfterCombine(id) ==
    /\ task[id].at = "combine"
    /\ \E answer \in {"written", "raises"} :
        IF answer = "raises"
        THEN /\ UNCHANGED tempFiles
             /\ IF Known(id)
                THEN TaskFails(id, conversions[id], "AssemblyError")
                ELSE TaskCrashes(id)
        ELSE /\ tempFiles' = tempFiles \ {audio_files[id][k] : k \in 1..Len(audio_files[id])}
             /\ outputFiles' = outputFiles \cup {id}
             /\ UNCHANGED <<chunks, audio_files>>
             /\ IF ~Known(id)
                THEN /\ task' = [task EXCEPT ![id] = [at |-> "crashed", i |-> @.i]]
                     /\ UNCHANGED conversions
                ELSE /\ conversions' = [conversions EXCEPT ![id] = ConversionCompleted(@)]
                     /\ task' = [task EXCEPT ![id] = [at |-> "estimate", i |-> @.i]]

\* conversion_service.py:181-198: the duration estimate has answered
AfterEstimate(id) ==
    /\ task[id].at = "estimate"
    /\ \E answer \in {"duration", "raises"} :
        IF ~Known(id)
        THEN TaskCrashes(id)
        ELSE IF answer = "raises"
        THEN TaskFails(id, conversions[id], "EstimateError")
        ELSE /\ conversions' = [conversions EXCEPT ![id].duration_estimate = TRUE]
             /\ task' = [task EXCEPT ![id] = [at |-> "ended", i |-> @.i]]
             /\ UNCHANGED <<chunks, audio_files, outputFiles>>
    /\ UNCHANGED tempFiles

\* cancel_conversion, conversion_service.py:225-238
CancelConversion(id) ==
    /\ Known(id)
    /\ conversions' = [conversions EXCEPT ![id].status = "cancelled",
                                          ![id].error = "Conversion cancelled by user"]
    /\ UNCHANGED <<task, chunks, audio_files, tempFiles, outputFiles>>

\* delete_conversion, api/routes/convert.py:163-198
DeleteConversion(id) ==
    /\ Known(id)
    /\ outputFiles' = IF conversions[id].output_file THEN outputFiles \ {id} ELSE outputFiles
    /\ conversions' = [k \in DOMAIN conversions \ {id} |-> conversions[k]]
    /\ UNCHANGED <<task, chunks, audio_files, tempFiles>>

(***************************************************************************)
(* Part 3: AudioProcessor.concatenate_wav_files                            *)
(* (backend/app/services/audio_processor.py).  A WAV file is its format    *)
(* (channels, sample width in bytes, frame rate) and its number of frames; *)
(* the output is the format set on it and the runs of bytes written to it. *)
(* assert statements are executed (the interpreter is not run with -O).    *)
(***************************************************************************)

VARIABLES
    wav_files,          \* the argument wav_files: a sequence of WAV files
    pause_between,      \* the argument pause_between, in half seconds
    wpc,                \* where the call stands: "idle", "start", "append",
                        \*   "done", or the exception it raised
    wi,                 \* the file the loop of audio_processor.py:25 is at
    out_wf              \* the output: format and the runs of bytes written

wavVars == <<wav_files, pause_between, wpc, wi, out_wf>>

ChannelCounts == {1, 2}
SampleWidths == {1, 2}
FrameRates == {8000, 11025}
FrameCounts == {1, 2}
Pauses == {0, 1, 3}

WavFiles ==
    [nchannels : ChannelCounts, sampwidth : SampleWidths,
     framerate : FrameRates, nframes : FrameCounts]

NoWave == [nchannels |-> 0, sampwidth |-> 0, framerate |-> 0, data |-> <<>>]

\* no call of concatenate_wav_files
WavIdle ==
    /\ wav_files = <<>>
    /\ pause_between = 0
    /\ wpc = "idle"
    /\ wi = 1
    /\ out_wf = NoWave

\* a call of concatenate_wav_files about to run
WavInit ==
    /\ wav_files \in UNION {[1..n -> WavFiles] : n \in 0..MaxFiles}
    /\ pause_between \in Pauses
    /\ wpc = "start"
    /\ wi = 1
    /\ out_wf = NoWave

\* src_wf.readframes(src_wf.getnframes()), audio_processor.py:41: the PCM
\* bytes of a file
pcm_bytes(f) == f.nframes * f.nchannels * f.sampwidth

\* _append_wav without the comparison of the sample widths
append_wav_no_width_check(dst_wf, k) ==
    LET src_wf == wav_files[k] IN
    IF \/ src_wf.nchannels # dst_wf.nchannels
       \/ src_wf.framerate # dst_wf.framerate
    THEN [raised |-> TRUE, out |-> dst_wf]
    ELSE [raised |-> FALSE,
          out |-> [dst_wf EXCEPT !.data = Append(@, <<"frames", k, pcm_bytes(src_wf)>>)]]

\* _append_wav, audio_processor.py:33-42, for file k of wav_files
append_wav(dst_wf, k) ==
    LET src_wf == wav_files[k] IN
    IF \/ src_wf.nchannels # dst_wf.nchannels
       \/ src_wf.sampwidth # dst_wf.sampwidth
       \/ src_wf.framerate # dst_wf.framerate
    THEN [raised |-> TRUE, out |-> dst_wf]
    ELSE [raised |-> FALSE,
          out |-> [dst_wf EXCEPT !.data = Append(@, <<"frames", k, pcm_bytes(src_wf)>>)]]

\* int(seconds * sample_rate), audio_processor.py:49, for seconds = halves / 2
silence_samples(halves, sample_rate) == (halves * sample_rate) \div 2

\* _write_silence, audio_processor.py:45-51: b"\x00\x00" * n_samples
write_silence(dst_wf, halves, sample_rate) ==
    IF halves <= 0 THEN dst_wf
    ELSE [dst_wf EXCEPT !.data =
             Append(@, <<"silence", 0, 2 * silence_samples(halves, sample_rate)>>)]

\* concatenate_wav_files, audio_processor.py:11-23: the empty-list test, the
\* format of the first file, the output opened with that format
OpenWav ==
    /\ wpc = "start"
    /\ IF wav_files = <<>>
       THEN wpc' = "ValueError" /\ UNCHANGED out_wf
       ELSE /\ wpc' = "append"
            /\ out_wf' = [nchannels |-> wav_files[1].nchannels,
                          sampwidth |-> wav_files[1].sampwidth,
                          framerate |-> wav_files[1].framerate,
                          data |-> <<>>]
    /\ UNCHANGED <<wav_files, pause_between, wi>>

\* one turn of the loop of audio_processor.py:25-30
ConcatStep ==
    /\ wpc = "append"
    /\ LET r == append_wav(out_wf, wi) IN
       IF r.raised
       THEN wpc' = "AssertionError" /\ UNCHANGED <<out_wf, wi>>
       ELSE /\ out_wf' = IF pause_between > 0 /\ wi < Len(wav_files)
                         THEN write_silence(r.out, pause_between, out_wf.framerate)
                         ELSE r.out
            /\ wi' = wi + 1
            /\ wpc' = IF wi = Len(wav_files) THEN "done" ELSE "append"
    /\ UNCHANGED <<wav_files, pause_between>>

(***************************************************************************)
(* Part 4: ChapterDetector (backend/app/services/detector.py).  A book is  *)
(* the sequence of its units (the document items of an EPUB, the pages of  *)
(* a PDF); a unit has a number of words, may start with a chapter heading, *)
(* and may be the target of a table-of-contents entry: "entry" is an entry *)
(* that yields a chapter, "skipped" one that yields none (an EPUB entry    *)
(* without href or content, a PDF entry below level 1).  A text is the     *)
(* number of its words; a title is the tuple of its parts.                 *)
(***************************************************************************)

VARIABLES
    file_type,                      \* "epub" or "pdf"
    units,                          \* the book
    max_chapter_duration_minutes,   \* the constructor argument
    dpc,                            \* "idle", "start", "detected", "returned"
                                    \*   or the exception raised
    chapters,                       \* the chapters a detection path found
    detection_path,                 \* the path that found them
    processed                       \* the list _post_process_chapters returns

detVars == <<file_type, units, max_chapter_duration_minutes, dpc, chapters,
             detection_path, processed>>

TTS_WPM == 150

WordCounts == {0, 1000, 1500, 4000, 10000}
Minutes == {0, 10, 20}
Units == [words : WordCounts, heading : BOOLEAN, toc : {"none", "entry", "skipped"}]

\* no call of detect_chapters
DetIdle ==
    /\ file_type = "epub"
    /\ units = <<>>
    /\ max_chapter_duration_minutes = 1
    /\ dpc = "idle"
    /\ chapters = <<>>
    /\ detection_path = "none"
    /\ processed = <<>>

\* a ChapterDetector and a book, detect_chapters about to run
DetInit ==
    /\ file_type \in {"epub", "pdf"}
    /\ units \in UNION {[1..n -> Units] : n \in 0..MaxUnits}
    /\ max_chapter_duration_minutes \in Minutes
    /\ dpc = "start"
    /\ chapters = <<>>
    /\ detection_path = "none"
    /\ processed = <<>>

\* detector.py:52
max_words_per_chapter == max_chapter_duration_minutes * TTS_WPM

\* Chapter(index, title, content, estimated_words), detector.py:15-24
Chapter(index, title, words, estimated_words) ==
    [index |-> index, title |-> title, words |-> words,
     estimated_words |-> estimated_words]

Min(a, b) == IF a <= b THEN a ELSE b

\* the words of units a..b together
RECURSIVE WordsOf(_, _)
WordsOf(a, b) == IF a > b THEN 0 ELSE units[a].words + WordsOf(a + 1, b)

\* the loop of _split_by_size with slices one word too long:
\* words[i:i + chunk_size + 1]
RECURSIVE SplitLoopLongSlice(_, _, _, _)
SplitLoopLongSlice(left, base_title, chunk_size, acc) ==
    IF left <= 0 THEN acc
    ELSE LET n == Min(chunk_size + 1, left) IN
         SplitLoopLongSlice(left - chunk_size, base_title, chunk_size,
                            Append(acc, Chapter(Len(acc), Append(base_title, Len(acc) + 1), n, n)))

\* the loop of _split_by_size, detector.py:306-315, with `left` words still
\* to slice
RECURSIVE SplitLoop(_, _, _, _)
SplitLoop(left, base_title, chunk_size, acc) ==
    IF left <= 0 THEN acc
    ELSE LET n == Min(chunk_size, left) IN
         SplitLoop(left - chunk_size, base_title, chunk_size,
                   Append(acc, Chapter(Len(acc), Append(base_title, Len(acc) + 1), n, n)))

\* _split_by_size, detector.py:298-317, for chunk_size > 0: range() walks up
\* from 0; for chunk_size < 0 it is empty (chunk_size = 0 raises ValueError)
split_by_size(text, base_title) ==
    IF max_words_per_chapter > 0
    THEN SplitLoop(text, base_title, max_words_per_chapter, <<>>)
    ELSE <<>>

\* _extract_epub_from_toc, detector.py:100-126, from unit k on; entry_idx counts
\* the entries of the table of contents
RECURSIVE EpubFromToc(_, _, _)
EpubFromToc(k, entry_idx, acc) ==
    IF k > Len(units) THEN acc
    ELSE IF units[k].toc = "none" THEN EpubFromToc(k + 1, entry_idx, acc)
    ELSE IF units[k].toc = "skipped" THEN EpubFromToc(k + 1, entry_idx + 1, acc)
    ELSE EpubFromToc(k + 1, entry_idx + 1,
             Append(acc, Chapter(entry_idx, <<"toc", entry_idx + 1>>, units[k].words, units[k].words)))

\* the next unit after k that a level-1 entry points at, or Len(units) + 1
RECURSIVE NextEntry(_)
NextEntry(k) ==
    IF k >= Len(units) THEN Len(units) + 1
    ELSE IF units[k + 1].toc = "entry" THEN k + 1 ELSE NextEntry(k + 1)

\* _extract_pdf_from_toc, detector.py:207-239, from page k on
RECURSIVE PdfFromToc(_, _)
PdfFromToc(k, acc) ==
    IF k > Len(units) THEN acc
    ELSE IF units[k].toc # "entry" THEN PdfFromToc(k + 1, acc)
    ELSE LET w == WordsOf(k, NextEntry(k) - 1) IN
         PdfFromToc(k + 1, Append(acc, Chapter(Len(acc), <<"toc", k>>, w, w)))

NoChapter == Chapter(0 - 1, <<>>, 0, 0)

\* the loop of _extract_epub_by_content, detector.py:136-168, from item k
\* on, then the append of detector.py:171-172
RECURSIVE EpubByContent(_, _, _, _)
EpubByContent(k, acc, current_chapter, chapter_index) ==
    IF k > Len(units)
    THEN IF current_chapter # NoChapter THEN Append(acc, current_chapter) ELSE acc
    ELSE LET w == units[k].words IN
         IF units[k].heading
         THEN EpubByContent(k + 1,
                  IF current_chapter # NoChapter THEN Append(acc, current_chapter) ELSE acc,
                  Chapter(chapter_index, <<"heading", k>>, w, w),
                  chapter_index + 1)
         ELSE IF current_chapter # NoChapter
         THEN EpubByContent(k + 1, acc,
                  [current_chapter EXCEPT !.words = @ + w, !.estimated_words = @ + w],
                  chapter_index)
         ELSE IF acc = <<>>
         THEN EpubByContent(k + 1, acc, Chapter(0, <<"Chapter 1">>, w, w), 1)
         ELSE EpubByContent(k + 1, acc, current_chapter, chapter_index)

\* the loop of _extract_pdf_by_content, detector.py:249-273, from page k on,
\* then the append of detector.py:276-278
RECURSIVE PdfByContent(_, _, _, _)
PdfByContent(k, acc, current_chapter, chapter_index) ==
    IF k > Len(units)
    THEN IF current_chapter # NoChapter THEN Append(acc, current_chapter) ELSE acc
    ELSE LET w == units[k].words IN
         IF units[k].heading
         THEN PdfByContent(k + 1,
                  IF current_chapter # NoChapter THEN Append(acc, current_chapter) ELSE acc,
                  Chapter(chapter_index, <<"heading", k>>, w, w),
                  chapter_index + 1)
         ELSE IF current_chapter # NoChapter
         THEN PdfByContent(k + 1, acc,
                  [current_chapter EXCEPT !.words = @ + w, !.estimated_words = @ + w],
                  chapter_index)
         ELSE PdfByContent(k + 1, acc, current_chapter, chapter_index)

HasToc == \E k \in 1..Len(units) : units[k].toc # "none"

FromToc == IF file_type = "epub" THEN EpubFromToc(1, 0, <<>>) ELSE PdfFromToc(1, <<>>)

ByContent ==
    IF file_type = "epub" THEN EpubByContent(1, <<>>, NoChapter, 0)
    ELSE PdfByContent(1, <<>>, NoChapter, 0)

\* _detect_epub_chapters, detector.py:72-93, and _detect_pdf_chapters,
\* detector.py:180-205, up to the call of _post_process_chapters
Detect ==
    /\ dpc = "start"
    /\ IF HasToc /\ FromToc # <<>>
       THEN /\ chapters' = FromToc /\ detection_path' = "toc" /\ dpc' = "detected"
       ELSE IF ByContent # <<>>
       THEN /\ chapters' = ByContent /\ detection_path' = "content" /\ dpc' = "detected"
       ELSE /\ detection_path' = "size"
            /\ IF max_words_per_chapter = 0
               THEN dpc' = "ValueError" /\ UNCHANGED chapters
               ELSE /\ dpc' = "detected"
                    /\ chapters' = split_by_size(WordsOf(1, Len(units)), <<"Full Book">>)
    /\ UNCHANGED <<file_type, units, max_chapter_duration_minutes, processed>>

\* does the loop of _post_process_chapters reach a range() with step 0
SplitRaises(chs) ==
    /\ max_words_per_chapter = 0
    /\ \E k \in 1..Len(chs) : chs[k].estimated_words > max_words_per_chapter

\* the sub-chapters of one split keeping the index _split_by_size gave them
RenumberWithinSplit(subs, title, base) ==
    [p \in 1..Len(subs) |-> [subs[p] EXCEPT !.title = Append(title, p)]]

\* the sub-chapters of one split, renumbered and retitled, detector.py:332-335
Renumber(subs, title, base) ==
    [p \in 1..Len(subs) |->
        [subs[p] EXCEPT !.index = base + p - 1, !.title = Append(title, p)]]

\* the loop of _post_process_chapters splitting from the bound on (>=)
RECURSIVE post_process_from_bound(_, _, _)
post_process_from_bound(chs, k, acc) ==
    IF k > Len(chs) THEN acc
    ELSE IF chs[k].estimated_words >= max_words_per_chapter
    THEN post_process_from_bound(chs, k + 1,
             acc \o Renumber(split_by_size(chs[k].words, chs[k].title), chs[k].title, Len(acc)))
    ELSE post_process_from_bound(chs, k + 1, Append(acc, [chs[k] EXCEPT !.index = Len(acc)]))

\* the first loop of _post_process_chapters, detector.py:325-338, from
\* chapter k on
RECURSIVE post_process_chapters(_, _, _)
post_process_chapters(chs, k, acc) ==
    IF k > Len(chs) THEN acc
    ELSE IF chs[k].estimated_words > max_words_per_chapter
    THEN post_process_chapters(chs, k + 1,
             acc \o Renumber(split_by_size(chs[k].words, chs[k].title), chs[k].title, Len(acc)))
    ELSE post_process_chapters(chs, k + 1, Append(acc, [chs[k] EXCEPT !.index = Len(acc)]))

\* _post_process_chapters, detector.py:319-344, and the return
PostProcess ==
    /\ dpc = "detected"
    /\ IF SplitRaises(chapters)
       THEN dpc' = "ValueError" /\ UNCHANGED processed
       ELSE dpc' = "returned" /\ processed' = post_process_chapters(chapters, 1, <<>>)
    /\ UNCHANGED <<file_type, units, max_chapter_duration_minutes, chapters, detection_path>>

(***************************************************************************)
(* Part 5: TextProcessor (backend/app/services/text_processor.py).         *)
(*                                                                         *)
(* chunk_paragraphs: the text is the sequence of the pieces that           *)
(* re.split(r"\n{2,}", text) returns, each already stripped; a piece is    *)
(* its content and its number of characters, and a piece of no characters  *)
(* is one that strip() leaves empty.  A chunk is the list of paragraphs    *)
(* that "\n".join makes into its text.  Every chunk yielded is handed to   *)
(* TTSEngine.synthesize_text (backend/app/services/tts_engine.py).         *)
(*                                                                         *)
(* clean_text: a string is the sequence of its characters, over an         *)
(* alphabet with one character for each way the function treats its input. *)
(***************************************************************************)

VARIABLES
    text,               \* chunk_paragraphs: the pieces of the argument text
    max_chars,          \* the argument max_chars
    tpc,                \* "idle", "start", "loop" or "done"
    paragraphs,         \* the local paragraphs
    tk,                 \* the paragraph the loop of text_processor.py:90 is at
    current_chunk,      \* the local current_chunk
    current_length,     \* the local current_length
    yielded,            \* the chunks yielded so far, each before its join
    handed,             \* per chunk handed to synthesize_text, what reaches Piper
    x,                  \* clean_text: the input string
    cpc,                \* "idle", "start", "once" or "twice"
    cleaned,            \* clean_text(x)
    recleaned           \* clean_text(clean_text(x))

chunkVars == <<text, max_chars, tpc, paragraphs, tk, current_chunk, current_length,
               yielded, handed>>
cleanVars == <<x, cpc, cleaned, recleaned>>
txtVars == <<chunkVars, cleanVars>>

MaxPieces == 3
PIPER_TEXT_LIMIT == 1000

Lengths == {400, 900, 1600}
Budgets == {800, 1500}
Pieces == [body : {"a", "b"}, len : Lengths] \cup {[body |-> "", len |-> 0]}

\* no call of clean_text
CleanIdle ==
    /\ x = <<>>
    /\ cpc = "idle"
    /\ cleaned = <<>>
    /\ recleaned = <<>>

\* no call of chunk_paragraphs
ChunkIdle ==
    /\ text = <<>>
    /\ max_chars = 800
    /\ tpc = "idle"
    /\ paragraphs = <<>>
    /\ tk = 1
    /\ current_chunk = <<>>
    /\ current_length = 0
    /\ yielded = <<>>
    /\ handed = <<>>

TxtIdle == ChunkIdle /\ CleanIdle

\* a call of chunk_paragraphs about to run
ChunkInit ==
    /\ text \in UNION {[1..n -> Pieces] : n \in 0..MaxPieces}
    /\ max_chars \in Budgets
    /\ tpc = "start"
    /\ paragraphs = <<>>
    /\ tk = 1
    /\ current_chunk = <<>>
    /\ current_length = 0
    /\ yielded = <<>>
    /\ handed = <<>>
    /\ CleanIdle

\* text_processor.py:86: [p.strip() for p in re.split(...) if p.strip()]
split_paragraphs(pieces) == SelectSeq(pieces, LAMBDA p : p.len > 0)

\* the loop body without the paragraph that opens the next chunk
pack_drops_paragraph(st, paragraph) ==
    IF st.current_length + paragraph.len > max_chars /\ st.current_chunk # <<>>
    THEN [out |-> Append(st.out, st.current_chunk),
          current_chunk |-> <<>>,
          current_length |-> 0]
    ELSE [out |-> st.out,
          current_chunk |-> Append(st.current_chunk, paragraph),
          current_length |-> st.current_length + paragraph.len]

\* the loop body, text_processor.py:91-98
pack(st, paragraph) ==
    IF st.current_length + paragraph.len > max_chars /\ st.current_chunk # <<>>
    THEN [out |-> Append(st.out, st.current_chunk),
          current_chunk |-> <<paragraph>>,
          current_length |-> paragraph.len]
    ELSE [out |-> st.out,
          current_chunk |-> Append(st.current_chunk, paragraph),
          current_length |-> st.current_length + paragraph.len]

RECURSIVE joined_length(_)
\* len("\n".join(chunk)): the paragraphs and one separator between two
joined_length(chunk) ==
    IF chunk = <<>> THEN 0
    ELSE IF Len(chunk) = 1 THEN chunk[1].len
    ELSE chunk[1].len + 1 + joined_length(Tail(chunk))

\* synthesize_text, tts_engine.py:84-88: how many characters of the text it
\* was given are in the text sent to Piper, and how many it added
synthesize_text(length) ==
    IF length > PIPER_TEXT_LIMIT
    THEN [kept |-> PIPER_TEXT_LIMIT, added |-> 3]
    ELSE [kept |-> length, added |-> 0]

\* text_processor.py:86-88
SplitParagraphs ==
    /\ tpc = "start"
    /\ paragraphs' = split_paragraphs(text)
    /\ tpc' = "loop"
    /\ UNCHANGED <<text, max_chars, tk, current_chunk, current_length, yielded, handed>>

\* one turn of the loop of text_processor.py:90-98
ChunkStep ==
    /\ tpc = "loop"
    /\ tk <= Len(paragraphs)
    /\ LET st == pack([out |-> yielded, current_chunk |-> current_chunk,
                       current_length |-> current_length], paragraphs[tk]) IN
       /\ yielded' = st.out
       /\ current_chunk' = st.current_chunk
       /\ current_length' = st.current_length
    /\ tk' = tk + 1
    /\ UNCHANGED <<text, max_chars, tpc, paragraphs, handed>>

\* after the loop, text_processor.py:100-102
ChunkFlush ==
    /\ tpc = "loop"
    /\ tk > Len(paragraphs)
    /\ yielded' = IF current_chunk # <<>> THEN Append(yielded, current_chunk) ELSE yielded
    /\ tpc' = "done"
    /\ UNCHANGED <<text, max_chars, paragraphs, tk, current_chunk, current_length, handed>>

\* the next chunk, joined, is the text of a call of synthesize_text
HandToSynthesis ==
    /\ tpc = "done"
    /\ Len(handed) < Len(yielded)
    /\ handed' = Append(handed, synthesize_text(joined_length(yielded[Len(handed) + 1])))
    /\ UNCHANGED <<text, max_chars, tpc, paragraphs, tk, current_chunk, current_length, yielded>>

MaxText == 5

\* the characters of an input: a letter that no mark composes with, a letter
\* that composes, a combining mark (category Mn), a character outside the
\* safe pattern, a character the replacements expand, and whitespace
InputChars == {"x", "e", "acute", "hash", "ellipsis", "sp", "tab", "lf", "cr"}
Whitespace == {"sp", "tab", "lf", "cr"}
safe_pattern == {"x", "e", "e_acute", "dot"} \cup Whitespace

\* a call of clean_text about to run
CleanInit ==
    /\ x \in UNION {[1..n -> InputChars] : n \in 0..MaxText}
    /\ cpc = "start"
    /\ cleaned = <<>>
    /\ recleaned = <<>>
    /\ ChunkIdle

RECURSIVE NFC(_)
\* unicodedata.normalize("NFC", text), text_processor.py:23
NFC(s) ==
    IF s = <<>> THEN <<>>
    ELSE IF Len(s) >= 2 /\ s[1] = "e" /\ s[2] = "acute"
    THEN <<"e_acute">> \o NFC(SubSeq(s, 3, Len(s)))
    ELSE <<s[1]>> \o NFC(Tail(s))

\* text_processor.py:27
RemoveMn(s) == SelectSeq(s, LAMBDA c : c # "acute")

RECURSIVE Replace(_)
\* the replacements, text_processor.py:30-56
Replace(s) ==
    IF s = <<>> THEN <<>>
    ELSE (IF s[1] = "ellipsis" THEN <<"dot", "dot", "dot">> ELSE <<s[1]>>) \o Replace(Tail(s))

\* text_processor.py:60-61
SafeFilter(s) == SelectSeq(s, LAMBDA c : c \in safe_pattern)

RECURSIVE RunEnd(_, _, _)
\* the first position from i on whose character is not in cls
RunEnd(s, i, cls) ==
    IF i <= Len(s) /\ s[i] \in cls THEN RunEnd(s, i + 1, cls) ELSE i

RECURSIVE SubRuns(_, _, _, _)
\* re.sub of the runs of characters of cls in s, from position i on, a run of
\* n characters replaced by the first Min(n, most) of them
SubRuns(s, i, cls, most) ==
    IF i > Len(s) THEN <<>>
    ELSE LET j == RunEnd(s, i, cls) IN
         IF j > i
         THEN SubSeq(s, i, Min(j - 1, i + most - 1)) \o SubRuns(s, j, cls, most)
         ELSE <<s[i]>> \o SubRuns(s, i + 1, cls, most)

RECURSIVE CollapseSpacePairs(_)
\* re.sub(r"[ \t]{2}", " ", text): two blanks at a time
CollapseSpacePairs(s) ==
    IF s = <<>> THEN <<>>
    ELSE IF Len(s) >= 2 /\ s[1] \in {"sp", "tab"} /\ s[2] \in {"sp", "tab"}
    THEN <<"sp">> \o CollapseSpacePairs(SubSeq(s, 3, Len(s)))
    ELSE <<s[1]>> \o CollapseSpacePairs(Tail(s))

\* re.sub(r"[ \t]+", " ", text), text_processor.py:64
CollapseSpaces(s) ==
    SubRuns([k \in 1..Len(s) |-> IF s[k] = "tab" THEN "sp" ELSE s[k]], 1, {"sp"}, 1)

\* re.sub(r"\n{2,}", "\n\n", text), text_processor.py:65
CollapseNewlines(s) == SubRuns(s, 1, {"lf"}, 2)

RECURSIVE TrimLines(_, _)
\* re.sub(r"^\s+|\s+$", "", text, flags=re.MULTILINE), text_processor.py:66,
\* from position i on: ^ is the start of the text or the position after a
\* newline, $ the end of the text or the position before a newline; \s+ is
\* greedy and gives back characters until $ holds
TrimLines(s, i) ==
    IF i > Len(s) THEN <<>>
    ELSE LET j == RunEnd(s, i, Whitespace)
             caret == i = 1 \/ s[i - 1] = "lf"
             dollars == {k \in (i + 1)..j : k = Len(s) + 1 \/ s[k] = "lf"}
         IN IF j > i /\ caret THEN TrimLines(s, j)
            ELSE IF j > i /\ dollars # {}
            THEN TrimLines(s, CHOOSE k \in dollars : \A m \in dollars : m <= k)
            ELSE <<s[i]>> \o TrimLines(s, i + 1)

RECURSIVE rstrip(_)
rstrip(s) ==
    IF s # <<>> /\ s[Len(s)] \in Whitespace THEN rstrip(SubSeq(s, 1, Len(s) - 1)) ELSE s

\* text.strip(), text_processor.py:68
strip(s) == rstrip(SubSeq(s, RunEnd(s, 1, Whitespace), Len(s)))

\* clean_text, text_processor.py:11-68
clean_text(s) ==
    strip(TrimLines(CollapseNewlines(CollapseSpaces(
        SafeFilter(Replace(RemoveMn(NFC(s)))))), 1))

\* clean_text(x)
CleanFirst ==
    /\ cpc = "start"
    /\ cleaned' = clean_text(x)
    /\ cpc' = "once"
    /\ UNCHANGED <<x, recleaned>>

\* clean_text of the result
CleanAgain ==
    /\ cpc = "once"
    /\ recleaned' = clean_text(cleaned)
    /\ cpc' = "twice"
    /\ UNCHANGED <<x, cleaned>>

vars == <<ttsVars, csVars, wavVars, detVars, txtVars>>

\* what the operations of each part leave alone
notTts == <<csVars, wavVars, detVars, txtVars>>
notCs == <<ttsVars, wavVars, detVars, txtVars>>
notWav == <<ttsVars, csVars, detVars, txtVars>>
notDet == <<ttsVars, csVars, wavVars, txtVars>>
notChunk == <<ttsVars, csVars, wavVars, detVars, cleanVars>>
notClean == <<ttsVars, csVars, wavVars, detVars, chunkVars>>

\* a TTSService on which nothing is chosen by the caller
TtsPinned ==
    /\ TtsInit
    /\ manifestPathBound = FALSE
    /\ output_format = "mp3"
    /\ callback_kind = "function"

\* the TTSService, with no ConversionService job
Init == TtsInit /\ CsInit /\ WavIdle /\ DetIdle /\ TxtIdle

Next ==
    \/ \E c \in Calls : ConvertBook(c) /\ UNCHANGED notTts
    \/ \E t \in Tasks : WorkerFinish(t) /\ UNCHANGED notTts
    \/ \E id \in JobIds : CancelJob(id) /\ UNCHANGED notTts

Spec == Init /\ [][Next]_vars

\* every synthesis call ends: a task a worker thread runs returns, raises or
\* runs into the timeout of its subprocess, and the pool then takes the next
\* queued task
SynthesisEnds == \A t \in Tasks : WF_vars(WorkerFinish(t) /\ UNCHANGED notTts)

SpecFair == Init /\ [][Next]_vars /\ SynthesisEnds

\* the ConversionService, with no TTSService call
InitCS == TtsPinned /\ CsInit /\ WavIdle /\ DetIdle /\ TxtIdle

NextCS ==
    \/ \E id \in Conversions : StartConversion(id) /\ UNCHANGED notCs
    \/ \E id \in Conversions : RunExtraction(id) /\ UNCHANGED notCs
    \/ \E id \in Conversions : AfterExtraction(id) /\ UNCHANGED notCs
    \/ \E id \in Conversions : AfterSynthesis(id) /\ UNCHANGED notCs
    \/ \E id \in Conversions : AfterCombine(id) /\ UNCHANGED notCs
    \/ \E id \in Conversions : AfterEstimate(id) /\ UNCHANGED notCs
    \/ \E id \in Conversions : CancelConversion(id) /\ UNCHANGED notCs
    \/ \E id \in Conversions : DeleteConversion(id) /\ UNCHANGED notCs

SpecCS == InitCS /\ [][NextCS]_vars

\* one call of concatenate_wav_files
InitWav == TtsPinned /\ CsInit /\ WavInit /\ DetIdle /\ TxtIdle

NextWav ==
    \/ OpenWav /\ UNCHANGED notWav
    \/ ConcatStep /\ UNCHANGED notWav

SpecWav == InitWav /\ [][NextWav]_vars

\* one call of detect_chapters
InitDet == TtsPinned /\ CsInit /\ WavIdle /\ DetInit /\ TxtIdle

NextDet ==
    \/ Detect /\ UNCHANGED notDet
    \/ PostProcess /\ UNCHANGED notDet

SpecDet == InitDet /\ [][NextDet]_vars

\* one call of chunk_paragraphs, its chunks handed to synthesize_text
InitChunk == TtsPinned /\ CsInit /\ WavIdle /\ DetIdle /\ ChunkInit

NextChunk ==
    \/ SplitParagraphs /\ UNCHANGED notChunk
    \/ ChunkStep /\ UNCHANGED notChunk
    \/ ChunkFlush /\ UNCHANGED notChunk
    \/ HandToSynthesis /\ UNCHANGED notChunk

SpecChunk == InitChunk /\ [][NextChunk]_vars

\* clean_text applied to an input and to its own result
InitClean == TtsPinned /\ CsInit /\ WavIdle /\ DetIdle /\ CleanInit

NextClean ==
    \/ CleanFirst /\ UNCHANGED notClean
    \/ CleanAgain /\ UNCHANGED notClean

SpecClean == InitClean /\ [][NextClean]_vars

(***************************************************************************)
(* Properties                                                              *)
(***************************************************************************)

Returned(c) == pc[c] = "returned"
CompletedChapters(m) == {ch \in Chapters : m[ch].status = "completed"}
Raised(c) == {ch \in Chapters : outcome[<<c, ch>>] = "raised"}

\* C1: partial-failure isolation.  When convert_book has returned, the job is
\* completed, exactly the chapters whose synthesis raised are failed (with an
\* error recorded), every other chapter is completed and chapters_completed
\* counts them.
C1_PartialFailureIsolation ==
    \A c \in Calls :
        Returned(c) =>
            /\ job[c].status = COMPLETED
            /\ \A ch \in Chapters :
                   IF ch \in Raised(c)
                   THEN manifest[c][ch].status = "failed" /\ manifest[c][ch].error # "None"
                   ELSE manifest[c][ch].status = "completed"
            /\ job[c].chapters_completed = Cardinality(Chapters \ Raised(c))

\* C2: a convert_book call that loaded an all-pending manifest and none of
\* whose synthesis calls raised returns a job that is completed, without
\* error, with chapters_completed = total_chapters > 0 and every chapter
\* completed.
C2_AllSucceedCompletes ==
    \A c \in Calls :
        (Returned(c) /\ (\A ch \in Chapters : loaded[c][ch] = PENDING) /\ Raised(c) = {}) =>
            /\ job[c].status = COMPLETED
            /\ job[c].error = "None"
            /\ job[c].chapters_completed = job[c].total_chapters
            /\ job[c].chapters_completed > 0
            /\ \A ch \in Chapters : manifest[c][ch].status = "completed"

\* C3: cancelled is terminal.  Once a job's status is cancelled, no later
\* step changes it, neither the status of a TTSService job nor that of a
\* ConversionService job still in the tracking dict.
C3_CancelledIsTerminal ==
    [][/\ \A c \in Calls :
              job[c].status = CANCELLED => job'[c].status = CANCELLED
       /\ \A id \in Conversions :
              (Known(id) /\ conversions[id].status = "cancelled" /\ id \in DOMAIN conversions')
                  => conversions'[id].status = "cancelled"]_vars

C7_CompletedAtMostTotal ==
    \A c \in Calls : job[c].chapters_completed <= job[c].total_chapters

\* C7 witness: a resumed run has counted a chapter it found completed and a
\* chapter it converted itself, and has reached the total.
C7_Witness ==
    \E c \in Calls :
        /\ Returned(c)
        /\ \E ch \in Chapters : loaded[c][ch] = "completed"
        /\ \E ch \in Chapters : outcome[<<c, ch>>] = "file"
        /\ job[c].chapters_completed = job[c].total_chapters

Terminal(chapter) == chapter.status \in {"completed", "failed"}

\* C8: while a job's status is completed, every chapter of the manifest it
\* worked on, and of the manifest on disk, is completed or failed.
C8_CompletedJobAllTerminal ==
    \A c \in Calls :
        job[c].status = COMPLETED =>
            \A ch \in Chapters : Terminal(manifest[c][ch]) /\ Terminal(manifestFile[ch])

\* C8 witness: a completed job with one chapter completed and one failed.
C8_Witness ==
    \E c \in Calls :
        /\ job[c].status = COMPLETED
        /\ \E ch \in Chapters : manifest[c][ch].status = "completed"
        /\ \E ch \in Chapters : manifest[c][ch].status = "failed"

Writes(c) == pc[c] # "returned" /\ pc'[c] = "returned"

C12_AtMostMaxWorkersRunning == Cardinality(running) <= max_workers

\* C12 witness: two convert_book calls are in progress, every worker is busy
\* and a chapter waits in the queue.
C12_Witness ==
    /\ \A c \in Calls : pc[c] = "awaiting"
    /\ Cardinality(running) = max_workers
    /\ queue # <<>>

\* get_job_status, tts.py:383-390: the job registered under job_id, or None
get_job_status(id) == IF jobs[id] = NoCall THEN None ELSE job[jobs[id]]

\* C13: the chapters_completed of one job never decreases from one step to
\* the next, neither on the job object that the progress updates of
\* tts.py:195-218 read nor in the status that get_job_status returns for it,
\* whatever order its chapters finish in.  (total_chapters is fixed, so the
\* fraction chapters_completed / total_chapters follows.)
C13_ProgressMonotone ==
    [][/\ \A c \in Calls :
              pc[c] # "idle" =>
                  /\ job'[c].chapters_completed >= job[c].chapters_completed
                  /\ job'[c].total_chapters = job[c].total_chapters
       /\ \A id \in JobIds :
              (jobs[id] # NoCall /\ jobs'[id] = jobs[id]) =>
                  get_job_status(id)'.chapters_completed
                      >= get_job_status(id).chapters_completed]_vars

\* C13 witness: chapter 2 of a call has been converted while the call still
\* awaits chapter 1, and another call of the service has counted both of
\* its chapters.
C13_Witness ==
    \E c, d \in Calls :
        /\ pc[c] = "awaiting" /\ futures[c][idx[c]] = 1
        /\ outcome[<<c, 2>>] = "file"
        /\ job[d].chapters_completed = 2

\* the await loop of call c has passed chapter ch (tts.py:190-227)
ChapterDone(c, ch) ==
    \E k \in 1..(idx[c] - 1) : k <= Len(futures[c]) /\ futures[c][k] = ch

NoRepeat(seq) == \A i, k \in 1..Len(seq) : seq[i] = seq[k] => i = k
InQueue(t) == \E k \in 1..Len(queue) : queue[k] = t

\* C15: within one convert_book call a chapter is submitted to the executor
\* at most once, and a chapter whose synthesis raised (piper failed or timed
\* out, ffmpeg failed) is not submitted again: it is neither queued nor
\* running afterwards, and once the await loop has passed it, it is failed.
C15_SubmittedAtMostOnce ==
    /\ NoRepeat(queue)
    /\ \A t \in running : ~InQueue(t)
    /\ \A c \in Calls :
           /\ NoRepeat(futures[c])
           /\ \A ch \in Chapters :
                  outcome[<<c, ch>>] = "raised" =>
                      /\ <<c, ch>> \notin running
                      /\ ~InQueue(<<c, ch>>)
                      /\ ChapterDone(c, ch) => manifest[c][ch].status = "failed"

\* C15 witness: a call has returned with a chapter failed by the timeout of
\* tts.py:273 and another chapter converted.
C15_Witness ==
    \E c \in Calls :
        /\ Returned(c)
        /\ \E ch \in Chapters : /\ outcome[<<c, ch>>] = "raised"
                                /\ manifest[c][ch].error = "TimeoutExpired"
        /\ \E ch \in Chapters : outcome[<<c, ch>>] = "file"

\* C16: cancel_job returns True exactly for a registered job whose status is
\* processing, and then only that job's status changes, to cancelled; for
\* an unknown job_id and for a job in any other status it returns False and
\* leaves every job as it was.
C16_CancelOnlyProcessing ==
    \A id \in JobIds :
        LET r == cancel_job(id)
            cancellable == jobs[id] # NoCall /\ job[jobs[id]].status = PROCESSING
        IN  /\ r.returned <=> cancellable
            /\ cancellable =>
                   /\ r.job[jobs[id]] = [job[jobs[id]] EXCEPT !.status = CANCELLED]
                   /\ \A c \in Calls \ {jobs[id]} : r.job[c] = job[c]
            /\ ~cancellable => r.job = job

\* C16 witness: one job has been cancelled, another job is completed and
\* cancel_job refuses it, and so it does for the first job now.
C16_Witness ==
    \E id1, id2 \in JobIds :
        /\ jobs[id1] # NoCall /\ job[jobs[id1]].status = CANCELLED
        /\ jobs[id2] # NoCall /\ job[jobs[id2]].status = COMPLETED
        /\ ~cancel_job(id1).returned /\ ~cancel_job(id2).returned

RECURSIVE SumBytes(_)
SumBytes(data) == IF data = <<>> THEN 0 ELSE Head(data)[3] + SumBytes(Tail(data))

RECURSIVE InputBytes(_)
InputBytes(fs) == IF fs = <<>> THEN 0 ELSE pcm_bytes(Head(fs)) + InputBytes(Tail(fs))

\* C18: when concatenate_wav_files has returned, the output holds the PCM
\* bytes of the inputs in order, with a run of zero bytes between consecutive
\* inputs only, and its PCM length is the sum of the inputs' PCM bytes plus
\* (n-1) * int(pause * sample_rate) * channels * sample_width.
C18_ConcatByteLength ==
    wpc = "done" =>
        LET n == Len(wav_files)
            frame == out_wf.nchannels * out_wf.sampwidth
            silence_frames == silence_samples(pause_between, out_wf.framerate)
        IN  /\ SumBytes(out_wf.data) = InputBytes(wav_files) + (n - 1) * silence_frames * frame
            /\ out_wf.data[Len(out_wf.data)] = <<"frames", n, pcm_bytes(wav_files[n])>>

\* file k of wav_files differs from the first in channels, sample width or
\* frame rate
Mismatch(k) ==
    \/ wav_files[k].nchannels # wav_files[1].nchannels
    \/ wav_files[k].sampwidth # wav_files[1].sampwidth
    \/ wav_files[k].framerate # wav_files[1].framerate

\* C19: an input that differs in format from the first makes
\* concatenate_wav_files fail when the loop reaches it: the output never
\* holds frames of a mismatching input nor of an input after one, the call
\* ends normally only if every input matches, and it ends with the error
\* exactly at a mismatching input.
C19_FormatMismatchFails ==
    /\ \A p \in 1..Len(out_wf.data) :
           out_wf.data[p][1] = "frames" =>
               \A k \in 1..out_wf.data[p][2] : ~Mismatch(k)
    /\ wpc = "done" => \A k \in 1..Len(wav_files) : ~Mismatch(k)
    /\ wpc = "AssertionError" =>
           /\ Mismatch(wi)
           /\ \A k \in 1..(wi - 1) : ~Mismatch(k)
    /\ wpc = "append" => \A k \in 1..(wi - 1) : ~Mismatch(k)

\* C19 witness: the call has failed at the second input, which differs from
\* the first in its sample width only, after the frames of the first input
\* were written.
C19_Witness ==
    /\ wpc = "AssertionError"
    /\ wi = 2
    /\ wav_files[2].sampwidth # wav_files[1].sampwidth
    /\ wav_files[2].nchannels = wav_files[1].nchannels
    /\ wav_files[2].framerate = wav_files[1].framerate
    /\ \E p \in 1..Len(out_wf.data) : out_wf.data[p][1] = "frames" /\ out_wf.data[p][2] = 1

\* C20: every chapter detect_chapters returns has at most
\* max_chapter_duration_minutes * 150 words, whichever path detected it.
C20_ChapterSizeBound ==
    dpc = "returned" =>
        \A k \in 1..Len(processed) :
            processed[k].words <= max_chapter_duration_minutes * 150

\* C20 witness: a chapter found through the table of contents was longer
\* than the bound and has been split.
C20_Witness ==
    /\ dpc = "returned"
    /\ detection_path = "toc"
    /\ \E k \in 1..Len(chapters) : chapters[k].words > max_words_per_chapter
    /\ Len(processed) > Len(chapters)

\* the number of chapters that a chapter of w words is to become under the
\* bound b: ceil(w / b) when it exceeds the bound, else 1
PartsDue(w, b) == IF w > b THEN (w + b - 1) \div b ELSE 1

\* the position in the returned list before the first part of chapter k
RECURSIVE PartsBefore(_)
PartsBefore(k) ==
    IF k <= 1 THEN 0
    ELSE PartsBefore(k - 1)
             + PartsDue(chapters[k - 1].words, max_chapter_duration_minutes * 150)

C22_IndicesContiguous ==
    dpc = "returned" =>
        /\ \A p \in 1..Len(processed) : processed[p].index = p - 1
        /\ \A p \in 1..Len(processed) :
               \E k \in 1..Len(chapters) :
                   /\ \/ processed[p].title = chapters[k].title
                      \/ \E q \in 1..Len(processed) :
                             processed[p].title = Append(chapters[k].title, q)
                   /\ \A p2 \in 1..(p - 1) :
                          \E k2 \in 1..k :
                              \/ processed[p2].title = chapters[k2].title
                              \/ \E q \in 1..Len(processed) :
                                     processed[p2].title = Append(chapters[k2].title, q)

\* C22 witness: an EPUB whose table of contents had a skipped entry before
\* an entry that yielded an over-long chapter, which was split.
C22_Witness ==
    /\ dpc = "returned"
    /\ file_type = "epub"
    /\ detection_path = "toc"
    /\ Len(units) = 2
    /\ units[1].toc = "skipped"
    /\ chapters[1].index = 1
    /\ Len(processed) > 1

\* C23: every chunk yielded by chunk_paragraphs has at most max_chars
\* characters, unless it is one single paragraph that is itself longer than
\* max_chars
C23_ChunkWithinBudget ==
    \A k \in 1..Len(yielded) :
        \/ joined_length(yielded[k]) <= max_chars
        \/ Len(yielded[k]) = 1 /\ yielded[k][1].len > max_chars

RECURSIVE ParagraphsOf(_)
\* the paragraphs of a sequence of chunks, the join separators ignored
ParagraphsOf(chs) ==
    IF chs = <<>> THEN <<>> ELSE chs[1] \o ParagraphsOf(Tail(chs))

\* C24: once chunk_paragraphs is exhausted, the chunks yielded, in order and
\* without their join separators, are the paragraphs of the input: each one
\* once, in the original order
C24_ChunksKeepParagraphs ==
    tpc = "done" => ParagraphsOf(yielded) = split_paragraphs(text)

C24_Witness ==
    /\ tpc = "done"
    /\ Len(yielded) = 2
    /\ Len(yielded[1]) = 2
    /\ yielded[1][1] # yielded[1][2]

\* C25: a paragraph longer than max_chars is a chunk of its own, and every
\* character of it is in the text that synthesize_text sends to Piper
C25_LongParagraphWhole ==
    \A k \in 1..Len(handed) : \A n \in 1..Len(yielded[k]) :
        yielded[k][n].len > max_chars =>
            /\ Len(yielded[k]) = 1
            /\ handed[k].kept = yielded[k][n].len

\* C26: clean_text is idempotent: applied to its own result it returns that
\* result
C26_CleanIdempotent ==
    cpc = "twice" => recleaned = cleaned

C26_Witness ==
    /\ cpc = "twice"
    /\ cleaned # x
    /\ Len(cleaned) = 3
    /\ cleaned[2] = "lf"
    /\ \E k \in 1..Len(x) : x[k] \in {"sp", "tab", "cr"}

\* C27: convert_book does not submit a chapter whose manifest status is
\* completed, counts it in chapters_completed and leaves its record as it
\* was, and submits every chapter that is not completed.  The step in which
\* call c runs its dispatch loop submits exactly the chapters its manifest
\* does not show completed and counts the completed ones; no later step of
\* the call submits anything or changes the record of a chapter the call
\* found completed.
C27_ResumptionSkipsCompleted ==
    [][\A c \in Calls :
        /\ (pc[c] = "idle" /\ pc'[c] # "idle") =>
               /\ \A ch \in Chapters :
                      IF AlreadyProcessed(manifestFile[ch])
                      THEN /\ \A k \in 1..Len(futures'[c]) : futures'[c][k] # ch
                           /\ manifest'[c][ch] = manifestFile[ch]
                      ELSE \E k \in 1..Len(futures'[c]) : futures'[c][k] = ch
               /\ job'[c].chapters_completed =
                      Cardinality({ch \in Chapters : AlreadyProcessed(manifestFile[ch])})
        /\ pc[c] # "idle" =>
               /\ futures'[c] = futures[c]
               /\ \A ch \in Chapters :
                      loaded[c][ch] = "completed" => manifest'[c][ch] = manifest[c][ch]]_vars

\* C28: when every synthesis call ends, every convert_book call that has
\* loaded its manifest returns; a call that has returned has left its job
\* completed or failed, never pending or processing, and the step in which
\* it returns writes its manifest back
C28_ConvertBookReturns ==
    /\ \A c \in Calls : (pc[c] # "idle") ~> Returned(c)
    /\ [](\A c \in Calls : Returned(c) => job[c].status \in {COMPLETED, FAILED})
    /\ [][\A c \in Calls :
              (~Returned(c) /\ Returned(c)') => manifestFile' = manifest'[c]]_vars

C28_Witness ==
    \E c \in Calls :
        /\ Returned(c)
        /\ job[c].status = COMPLETED
        /\ \E ch \in Chapters : outcome[<<c, ch>>] = "raised"
        /\ \E ch \in Chapters : outcome[<<c, ch>>] = "file"
        /\ manifestFile = manifest[c]

\* the clock seconds at which start_conversion (main.py:154-185) may have
\* built the job_id it announces for a convert_book call that registers its
\* job in this step: the response is built before the background task runs
AnnouncedJobIds == now..now'

\* C29: a convert_book call registers its job under a job_id that no
\* earlier call has used, so that no entry of jobs is overwritten, and that
\* job_id is the one the start endpoint announced
C29_JobIdsDistinct ==
    [][\A c \in Calls :
          (pc[c] = "idle" /\ pc'[c] # "idle") =>
              /\ jobs[job'[c].job_id] = NoCall
              /\ jobs'[job'[c].job_id] = c
              /\ \A a \in AnnouncedJobIds : a = job'[c].job_id]_vars

\* C30: no _run_conversion task ends on a missing record: after
\* delete_conversion has removed conversions[job_id], every later access of
\* the task, its failure handler included, finds the job or is skipped
C30_TaskSurvivesDelete ==
    \A id \in Conversions : task[id].at # "crashed"

====
